---- MODULE Spec2Model ----
(***************************************************************************)
(* Model of the denture tokenizer: LineTokenizer::from_str                 *)
(* (src/parser/tokenizer/line.rs) as a character-driven state machine with *)
(* one action per arm of its match, and Tokenizer::from_reader             *)
(* (src/parser/tokenizer/mod.rs) as the per-document collector.            *)
(*                                                                         *)
(* A string is a sequence of one-character strings; positions are the      *)
(* 0-based indices that char_indices() yields (every character of the      *)
(* model is ASCII, so byte index = character index).                       *)
(***************************************************************************)
EXTENDS Integers, Sequences, FiniteSets, TLC

VARIABLES input, index, state, offset, tokens, ret,
          lines, lineno, collected, rret

lvars == <<input, index, state, offset, tokens, ret>>
rvars == <<lines, lineno, collected, rret>>
vars == <<input, index, state, offset, tokens, ret, lines, lineno, collected, rret>>

(***************************************************************************)
(* Bounds of the model.                                                    *)
(***************************************************************************)
MaxLen == 3
MaxNumLen == 5
MaxLits == 2
MaxLines == 3

(***************************************************************************)
(* Characters and the character classes the code consults.                 *)
(***************************************************************************)
AsciiDigits == {"0", "1", "2", "3", "4", "5", "6", "7", "8", "9"}
LowerLetters == {"a", "b", "c", "d", "e", "f", "m", "o", "r", "u", "x", "z"}
UpperLetters == {"A", "B", "F", "O", "R", "U", "X"}
Letters == LowerLetters \cup UpperLetters

to_ascii_lowercase(c) ==
    CASE c = "A" -> "a" [] c = "B" -> "b" [] c = "F" -> "f" [] c = "O" -> "o"
      [] c = "R" -> "r" [] c = "U" -> "u" [] c = "X" -> "x" [] OTHER -> c

\* char::is_numeric on the characters of the model
is_numeric(c) == c \in AsciiDigits

\* the value char::to_digit gives a character, -1 for none
DigitValue(c) ==
    CASE c = "0" -> 0 [] c = "1" -> 1 [] c = "2" -> 2 [] c = "3" -> 3
      [] c = "4" -> 4 [] c = "5" -> 5 [] c = "6" -> 6 [] c = "7" -> 7
      [] c = "8" -> 8 [] c = "9" -> 9
      [] c \in {"a", "A"} -> 10 [] c \in {"b", "B"} -> 11 [] c \in {"c"} -> 12
      [] c \in {"d"} -> 13 [] c \in {"e"} -> 14 [] c \in {"f", "F"} -> 15
      [] OTHER -> -1

\* char::is_digit(radix)
is_digit(c, r) == DigitValue(c) >= 0 /\ DigitValue(c) < r

is_xid_start(c) == c \in Letters
is_xid_continue(c) == c \in (Letters \cup AsciiDigits \cup {"_"})

\* input[a..b]
Slice(s, a, b) == SubSeq(s, a + 1, b)

(***************************************************************************)
(* Token, Operator (tokenizer/mod.rs) and the tokenizer's own enums.       *)
(***************************************************************************)
Comment(s) == [kind |-> "Comment", text |-> s]
Identifier(s) == [kind |-> "Identifier", text |-> s]
Whitespaces(s) == [kind |-> "Whitespaces", text |-> s]
Operator(op) == [kind |-> "Operator", op |-> op]
BinNumber(s) == [kind |-> "BinNumber", text |-> s]
OctNumber(s) == [kind |-> "OctNumber", text |-> s]
DecNumber(s) == [kind |-> "DecNumber", text |-> s]
HexNumber(s) == [kind |-> "HexNumber", text |-> s]

radix(t) ==
    CASE t = "Hex" -> 16 [] t = "Oct" -> 8 [] t = "Bin" -> 2 [] t = "Dec" -> 10

\* every radix built with the hexadecimal constructor
token_builder_AlwaysHex(t, s) == HexNumber(s)

token_builder(t, s) ==
    CASE t = "Hex" -> HexNumber(s) [] t = "Oct" -> OctNumber(s)
      [] t = "Bin" -> BinNumber(s) [] t = "Dec" -> DecNumber(s)

StIndent == [tag |-> "Indent"]
StIdentifier(n) == [tag |-> "Identifier", starts_at |-> n]
StComment(n) == [tag |-> "Comment", starts_at |-> n]
StZero == [tag |-> "Zero"]
StZeroPadded(n) == [tag |-> "ZeroPadded", starts_at |-> n]
StStringPrefixSingle == [tag |-> "StringPrefixSingle"]
StStringPrefixDouble == [tag |-> "StringPrefixDouble"]
StString(q, n) == [tag |-> "String", quote |-> q, starts_at |-> n]
StWhitespaces(n) == [tag |-> "Whitespaces", starts_at |-> n]
StNumber(t, ns, n) == [tag |-> "Number", t |-> t, ns |-> ns, starts_at |-> n]
StEmpty == [tag |-> "Empty"]

NoRet == [tag |-> "None"]
InvalidCharacter(s, c) == [tag |-> "Err", kind |-> "InvalidCharacter", state |-> s, c |-> c]
InvalidTerminalState(s) == [tag |-> "Err", kind |-> "InvalidTerminalState", state |-> s]
OkLine(off, toks) == [tag |-> "Ok", offset |-> off, tokens |-> toks]

(***************************************************************************)
(* match_first_char: an Option is a sequence of at most one element.       *)
(***************************************************************************)
\* a '+' opens a pending construct instead of emitting its operator at once
match_first_char_PlusPending(i, c) ==
    LET l == to_ascii_lowercase(c) IN
    CASE l = "#" -> [state |-> <<StComment(i)>>, token |-> <<>>]
      [] l \in {"b", "f", "r", "u"} -> [state |-> <<StStringPrefixSingle>>, token |-> <<>>]
      [] l = "0" -> [state |-> <<StZero>>, token |-> <<>>]
      [] l = " " -> [state |-> <<StWhitespaces(i)>>, token |-> <<>>]
      [] l = ":" -> [state |-> <<StEmpty>>, token |-> <<Operator("Colon")>>]
      [] l = "+" -> [state |-> <<StEmpty>>, token |-> <<>>]
      [] OTHER ->
           IF is_numeric(l) THEN [state |-> <<StNumber("Dec", "Normal", i)>>, token |-> <<>>]
           ELSE IF is_xid_start(l) THEN [state |-> <<StIdentifier(i)>>, token |-> <<>>]
           ELSE [state |-> <<>>, token |-> <<>>]

match_first_char(i, c) ==
    LET l == to_ascii_lowercase(c) IN
    CASE l = "#" -> [state |-> <<StComment(i)>>, token |-> <<>>]
      [] l \in {"b", "f", "r", "u"} -> [state |-> <<StStringPrefixSingle>>, token |-> <<>>]
      [] l = "0" -> [state |-> <<StZero>>, token |-> <<>>]
      [] l = " " -> [state |-> <<StWhitespaces(i)>>, token |-> <<>>]
      [] l = ":" -> [state |-> <<StEmpty>>, token |-> <<Operator("Colon")>>]
      [] l = "+" -> [state |-> <<StEmpty>>, token |-> <<Operator("Plus")>>]
      [] OTHER ->
           IF is_numeric(l) THEN [state |-> <<StNumber("Dec", "Normal", i)>>, token |-> <<>>]
           ELSE IF is_xid_start(l) THEN [state |-> <<StIdentifier(i)>>, token |-> <<>>]
           ELSE [state |-> <<>>, token |-> <<>>]

(***************************************************************************)
(* The locals of from_str and its return value, as one record m:           *)
(* [state, offset, tokens, ret].  Every arm maps (input, index, c, m) to   *)
(* the record after the arm.                                               *)
(***************************************************************************)
\* the tail shared by every construct-ending arm: dispatch c, push the
\* token it emits, fail with InvalidCharacter{s, c} when nothing starts with c
\* the error reports the initial state instead of the state before c
Dispatch_ErrInitialState(s, i, c, off, toks) ==
    LET r == match_first_char(i, c)
        pushed == toks \o r.token
    IN  IF r.state = <<>>
        THEN [state |-> s, offset |-> off, tokens |-> pushed,
              ret |-> InvalidCharacter(StIndent, c)]
        ELSE [state |-> r.state[1], offset |-> off, tokens |-> pushed, ret |-> NoRet]

Dispatch(s, i, c, off, toks) ==
    LET r == match_first_char(i, c)
        pushed == toks \o r.token
    IN  IF r.state = <<>>
        THEN [state |-> s, offset |-> off, tokens |-> pushed, ret |-> InvalidCharacter(s, c)]
        ELSE [state |-> r.state[1], offset |-> off, tokens |-> pushed, ret |-> NoRet]

ArmIndentSpace(in, i, c, m) == [m EXCEPT !.state = StIndent]

\* the indentation never recorded
ArmIndentFirst_NoOffset(in, i, c, m) == Dispatch(m.state, i, c, m.offset, m.tokens)

ArmIndentFirst(in, i, c, m) == Dispatch(m.state, i, c, i, m.tokens)

ArmWhitespaces(in, i, c, m) ==
    Dispatch(m.state, i, c, m.offset,
             Append(m.tokens, Whitespaces(Slice(in, m.state.starts_at, i))))

\* the 'b' and 'o' markers exchanged
ArmZero_MarkersSwapped(in, i, c, m) ==
    CASE c \in {"x", "X"} -> [m EXCEPT !.state = StNumber("Hex", "Normal", i - 1)]
      [] c \in {"b", "B"} -> [m EXCEPT !.state = StNumber("Oct", "Normal", i - 1)]
      [] c \in {"o", "O"} -> [m EXCEPT !.state = StNumber("Bin", "Normal", i - 1)]
      [] c = "0" -> [m EXCEPT !.state = StZeroPadded(i - 1)]
      [] OTHER -> [m EXCEPT !.ret = InvalidCharacter(m.state, c)]

\* the literal started at the radix marker instead of at the '0'
ArmZero_StartsAtMarker(in, i, c, m) ==
    CASE c \in {"x", "X"} -> [m EXCEPT !.state = StNumber("Hex", "Normal", i)]
      [] c \in {"b", "B"} -> [m EXCEPT !.state = StNumber("Bin", "Normal", i)]
      [] c \in {"o", "O"} -> [m EXCEPT !.state = StNumber("Oct", "Normal", i)]
      [] c = "0" -> [m EXCEPT !.state = StZeroPadded(i)]
      [] OTHER -> [m EXCEPT !.ret = InvalidCharacter(m.state, c)]

ArmZero(in, i, c, m) ==
    CASE c \in {"x", "X"} -> [m EXCEPT !.state = StNumber("Hex", "Normal", i - 1)]
      [] c \in {"b", "B"} -> [m EXCEPT !.state = StNumber("Bin", "Normal", i - 1)]
      [] c \in {"o", "O"} -> [m EXCEPT !.state = StNumber("Oct", "Normal", i - 1)]
      [] c = "0" -> [m EXCEPT !.state = StZeroPadded(i - 1)]
      [] OTHER -> [m EXCEPT !.ret = InvalidCharacter(m.state, c)]

\* the reinterpreted identifier started at the current character, not at the letter
ArmStringPrefixSingle_StartsAtIndex(in, i, c, m) ==
    LET p == to_ascii_lowercase(in[i])
        l == to_ascii_lowercase(c)
    IN  CASE (p \in {"b", "f"} /\ l = "r") \/ (p = "r" /\ l \in {"b", "f"}) ->
               [m EXCEPT !.state = StStringPrefixDouble]
          [] l = "'" -> [m EXCEPT !.state = StString("Single", i - 1)]
          [] l = "\"" -> [m EXCEPT !.state = StString("Double", i - 1)]
          [] OTHER -> [m EXCEPT !.state = StIdentifier(i)]

\* the start of the string or identifier taken one position too early
ArmStringPrefixSingle_StartsBeforeLetter(in, i, c, m) ==
    LET p == to_ascii_lowercase(in[i])
        l == to_ascii_lowercase(c)
    IN  CASE (p \in {"b", "f"} /\ l = "r") \/ (p = "r" /\ l \in {"b", "f"}) ->
               [m EXCEPT !.state = StStringPrefixDouble]
          [] l = "'" -> [m EXCEPT !.state = StString("Single", i - 2)]
          [] l = "\"" -> [m EXCEPT !.state = StString("Double", i - 2)]
          [] OTHER -> [m EXCEPT !.state = StIdentifier(i - 2)]

ArmStringPrefixSingle(in, i, c, m) ==
    LET p == to_ascii_lowercase(in[i])     \* input[index - 1..].chars().next()
        l == to_ascii_lowercase(c)
    IN  CASE (p \in {"b", "f"} /\ l = "r") \/ (p = "r" /\ l \in {"b", "f"}) ->
               [m EXCEPT !.state = StStringPrefixDouble]
          [] l = "'" -> [m EXCEPT !.state = StString("Single", i - 1)]
          [] l = "\"" -> [m EXCEPT !.state = StString("Double", i - 1)]
          [] OTHER -> [m EXCEPT !.state = StIdentifier(i - 1)]

ArmNumberRadix(in, i, c, m) ==
    LET t == m.state.t
        starts_at == m.state.starts_at
    IN  IF is_digit(c, radix(t))
        THEN [m EXCEPT !.state = StNumber(t, "Normal", starts_at)]
        ELSE Dispatch(m.state, i, c, m.offset,
                      Append(m.tokens, token_builder(t, Slice(in, starts_at, i))))

\* a '_' accepted after a '_'
ArmNumberDec_AnyUnderscore(in, i, c, m) ==
    LET number_state == m.state.ns
        starts_at == m.state.starts_at
    IN  CASE is_numeric(c) -> [m EXCEPT !.state = StNumber("Dec", "Normal", starts_at)]
          [] c = "_" -> [m EXCEPT !.state = StNumber("Dec", "Underscore", starts_at)]
          [] ~is_numeric(c) /\ c # "_" /\ number_state = "Normal" ->
               Dispatch(m.state, i, c, m.offset,
                        Append(m.tokens, HexNumber(Slice(in, starts_at, i))))
          [] OTHER -> [m EXCEPT !.ret = InvalidCharacter(m.state, c)]

ArmNumberDec(in, i, c, m) ==
    LET number_state == m.state.ns
        starts_at == m.state.starts_at
    IN  CASE is_numeric(c) -> [m EXCEPT !.state = StNumber("Dec", "Normal", starts_at)]
          [] c = "_" /\ number_state = "Normal" ->
               [m EXCEPT !.state = StNumber("Dec", "Underscore", starts_at)]
          [] ~is_numeric(c) /\ c # "_" /\ number_state = "Normal" ->
               Dispatch(m.state, i, c, m.offset,
                        Append(m.tokens, HexNumber(Slice(in, starts_at, i))))
          [] OTHER -> [m EXCEPT !.ret = InvalidCharacter(m.state, c)]

ArmIdentifier(in, i, c, m) ==
    IF is_xid_continue(c)
    THEN [m EXCEPT !.state = StIdentifier(m.state.starts_at)]
    ELSE Dispatch(m.state, i, c, m.offset,
                  Append(m.tokens, Identifier(Slice(in, m.state.starts_at, i))))

ArmEmpty(in, i, c, m) == Dispatch(m.state, i, c, m.offset, m.tokens)

\* a '#' inside a comment starts the comment again
ArmComment_Restarts(in, i, c, m) ==
    IF c = "#" THEN [m EXCEPT !.state = StComment(i)]
    ELSE [m EXCEPT !.state = StComment(m.state.starts_at)]

ArmComment(in, i, c, m) == [m EXCEPT !.state = StComment(m.state.starts_at)]

\* a character in an unsupported state skipped instead of rejected
ArmCatchAll_Skips(in, i, c, m) == m

ArmCatchAll(in, i, c, m) == [m EXCEPT !.ret = InvalidCharacter(m.state, c)]

\* which arm of `match (state, c)` is taken: the first whose pattern matches
ArmOf(s, c) ==
    CASE s.tag = "Indent" -> IF c = " " THEN "IndentSpace" ELSE "IndentFirst"
      [] s.tag = "Whitespaces" -> "Whitespaces"
      [] s.tag = "Zero" -> "Zero"
      [] s.tag = "StringPrefixSingle" -> "StringPrefixSingle"
      [] s.tag = "Number" ->
           IF s.t = "Dec" THEN "NumberDec"
           ELSE IF s.ns = "Normal" THEN "NumberRadix" ELSE "CatchAll"
      [] s.tag = "Identifier" -> "Identifier"
      [] s.tag = "Empty" -> "Empty"
      [] s.tag = "Comment" -> "Comment"
      [] OTHER -> "CatchAll"

\* a lone "0" at the end of the line accepted as a decimal number
EndOfLine_ZeroIsNumber(in, m) ==
    LET s == m.state IN
    CASE s.tag = "Comment" ->
           LET toks == Append(m.tokens, Comment(Slice(in, s.starts_at, Len(in))))
           IN  [m EXCEPT !.tokens = toks, !.ret = OkLine(m.offset, toks)]
      [] s.tag = "Number" /\ s.ns = "Normal" ->
           LET toks == Append(m.tokens, token_builder(s.t, Slice(in, s.starts_at, Len(in))))
           IN  [m EXCEPT !.tokens = toks, !.ret = OkLine(m.offset, toks)]
      [] s.tag = "Zero" ->
           LET toks == Append(m.tokens, DecNumber(Slice(in, Len(in) - 1, Len(in))))
           IN  [m EXCEPT !.tokens = toks, !.ret = OkLine(m.offset, toks)]
      [] s.tag \in {"Indent", "Whitespaces", "Empty"} ->
           [m EXCEPT !.ret = OkLine(m.offset, m.tokens)]
      [] s.tag = "Identifier" ->
           LET toks == Append(m.tokens, Identifier(Slice(in, s.starts_at, Len(in))))
           IN  [m EXCEPT !.tokens = toks, !.ret = OkLine(m.offset, toks)]
      [] OTHER -> [m EXCEPT !.ret = InvalidTerminalState(s)]

\* the match after the loop
EndOfLine(in, m) ==
    LET s == m.state IN
    CASE s.tag = "Comment" ->
           LET toks == Append(m.tokens, Comment(Slice(in, s.starts_at, Len(in))))
           IN  [m EXCEPT !.tokens = toks, !.ret = OkLine(m.offset, toks)]
      [] s.tag = "Number" /\ s.ns = "Normal" ->
           LET toks == Append(m.tokens, token_builder(s.t, Slice(in, s.starts_at, Len(in))))
           IN  [m EXCEPT !.tokens = toks, !.ret = OkLine(m.offset, toks)]
      [] s.tag \in {"Indent", "Whitespaces", "Empty"} ->
           [m EXCEPT !.ret = OkLine(m.offset, m.tokens)]
      [] s.tag = "Identifier" ->
           LET toks == Append(m.tokens, Identifier(Slice(in, s.starts_at, Len(in))))
           IN  [m EXCEPT !.tokens = toks, !.ret = OkLine(m.offset, toks)]
      [] OTHER -> [m EXCEPT !.ret = InvalidTerminalState(s)]

\* the locals at the top of from_str
Start == [state |-> StIndent, offset |-> 0, tokens |-> <<>>, ret |-> NoRet]

\* one iteration of the loop
LoopBody(in, i, m) ==
    LET c == in[i + 1]
        arm == ArmOf(m.state, c)
    IN  CASE arm = "IndentSpace" -> ArmIndentSpace(in, i, c, m)
          [] arm = "IndentFirst" -> ArmIndentFirst(in, i, c, m)
          [] arm = "Whitespaces" -> ArmWhitespaces(in, i, c, m)
          [] arm = "Zero" -> ArmZero(in, i, c, m)
          [] arm = "StringPrefixSingle" -> ArmStringPrefixSingle(in, i, c, m)
          [] arm = "NumberRadix" -> ArmNumberRadix(in, i, c, m)
          [] arm = "NumberDec" -> ArmNumberDec(in, i, c, m)
          [] arm = "Identifier" -> ArmIdentifier(in, i, c, m)
          [] arm = "Empty" -> ArmEmpty(in, i, c, m)
          [] arm = "Comment" -> ArmComment(in, i, c, m)
          [] OTHER -> ArmCatchAll(in, i, c, m)

RECURSIVE Scan(_, _, _)
Scan(in, i, m) ==
    IF m.ret # NoRet THEN m.ret
    ELSE IF i = Len(in) THEN EndOfLine(in, m).ret
    ELSE Scan(in, i + 1, LoopBody(in, i, m))

\* LineTokenizer::from_str as a function of the line
from_str(in) == Scan(in, 0, Start)

(***************************************************************************)
(* The lines the tokenizer is run on.                                      *)
(***************************************************************************)
Strings(alphabet, n) == UNION {[1..k -> alphabet] : k \in 0..n}

GenChars == {" ", "#", ":", "+", "_", "0", "1", "x", "o", "b", "B", "f", "r", "a", "'", "-"}
NumChars == {"0", "1", "_", "x", "+", " "}

\* radix-prefixed literals and the sums of them
Literals ==
    {<<"0", "x", "1", "0", "f", "F">>, <<"0", "X", "b">>, <<"0", "o", "1", "7">>,
     <<"0", "O", "0">>, <<"0", "b", "0", "1">>, <<"0", "B", "1">>}
Pluses == {<<"+">>, <<" ", "+">>, <<"+", " ">>, <<" ", "+", " ">>}

RECURSIVE Sums(_)
Sums(n) ==
    IF n = 1 THEN Literals
    ELSE LET shorter == Sums(n - 1)
         IN  shorter \cup {s \o p \o l : s \in shorter, p \in Pluses, l \in Literals}

InputLines == Strings(GenChars, MaxLen) \cup Strings(NumChars, MaxNumLen) \cup Sums(MaxLits)

(***************************************************************************)
(* from_str as a state machine: one action per arm.                        *)
(***************************************************************************)
Locals == [state |-> state, offset |-> offset, tokens |-> tokens, ret |-> ret]

Running == ret = NoRet /\ index < Len(input)

Set(m) ==
    /\ state' = m.state
    /\ offset' = m.offset
    /\ tokens' = m.tokens
    /\ ret' = m.ret
    /\ index' = index + 1
    /\ UNCHANGED <<input, lines, lineno, collected, rret>>

Taken(arm) == Running /\ ArmOf(state, input[index + 1]) = arm

IndentSpace == Taken("IndentSpace") /\ Set(ArmIndentSpace(input, index, input[index + 1], Locals))
IndentFirst == Taken("IndentFirst") /\ Set(ArmIndentFirst(input, index, input[index + 1], Locals))
WhitespacesArm == Taken("Whitespaces") /\ Set(ArmWhitespaces(input, index, input[index + 1], Locals))
ZeroArm == Taken("Zero") /\ Set(ArmZero(input, index, input[index + 1], Locals))
StringPrefixSingleArm ==
    Taken("StringPrefixSingle") /\ Set(ArmStringPrefixSingle(input, index, input[index + 1], Locals))
NumberRadixArm == Taken("NumberRadix") /\ Set(ArmNumberRadix(input, index, input[index + 1], Locals))
NumberDecArm == Taken("NumberDec") /\ Set(ArmNumberDec(input, index, input[index + 1], Locals))
IdentifierArm == Taken("Identifier") /\ Set(ArmIdentifier(input, index, input[index + 1], Locals))
EmptyArm == Taken("Empty") /\ Set(ArmEmpty(input, index, input[index + 1], Locals))
CommentArm == Taken("Comment") /\ Set(ArmComment(input, index, input[index + 1], Locals))
CatchAllArm == Taken("CatchAll") /\ Set(ArmCatchAll(input, index, input[index + 1], Locals))

Finish ==
    /\ ret = NoRet
    /\ index = Len(input)
    /\ LET m == EndOfLine(input, Locals)
       IN  /\ state' = m.state
           /\ offset' = m.offset
           /\ tokens' = m.tokens
           /\ ret' = m.ret
    /\ UNCHANGED <<input, index, lines, lineno, collected, rret>>

Init ==
    /\ input \in InputLines
    /\ index = 0
    /\ state = Start.state
    /\ offset = Start.offset
    /\ tokens = Start.tokens
    /\ ret = Start.ret
    /\ lines = <<>>
    /\ lineno = 0
    /\ collected = <<>>
    /\ rret = NoRet

Next ==
    \/ IndentSpace
    \/ IndentFirst
    \/ WhitespacesArm
    \/ ZeroArm
    \/ StringPrefixSingleArm
    \/ NumberRadixArm
    \/ NumberDecArm
    \/ IdentifierArm
    \/ EmptyArm
    \/ CommentArm
    \/ CatchAllArm
    \/ Finish

Spec == Init /\ [][Next]_vars

(***************************************************************************)
(* Tokenizer::from_reader: reader.lines() mapped through from_str and      *)
(* collected into a Result.  An item of the reader is a line or an I/O     *)
(* failure; collect pulls the items one at a time and stops at the first   *)
(* Err.                                                                    *)
(***************************************************************************)
IoFailure == [tag |-> "Err", kind |-> "Io"]

\* an item of reader.lines(): io::Result<String>
ItemLine(l) == [io |-> "Ok", line |-> l]
ItemFailure == [io |-> "Err", line |-> <<>>]

DocLines ==
    {<<>>, <<"1">>, <<"a", ":">>, <<" ", "#">>, <<"0">>, <<"1", "_">>, <<"-">>}
DocItems == {ItemLine(l) : l \in DocLines} \cup {ItemFailure}
Docs == UNION {[1..k -> DocItems] : k \in 0..MaxLines}

\* the closure given to map: |line| from_str(&line?).map_err(failure::Error::from)
MapLine(item) == IF item.io = "Err" THEN IoFailure ELSE from_str(item.line)

\* a failing item skipped instead of ending the collection
Collect_SkipsFailures(item, acc) ==
    LET r == MapLine(item)
    IN  IF r.tag = "Ok"
        THEN [collected |-> Append(acc, r), rret |-> NoRet]
        ELSE [collected |-> acc, rret |-> NoRet]

\* one item pulled by collect::<Result<_, _>>()
Collect(item, acc) ==
    LET r == MapLine(item)
    IN  IF r.tag = "Ok"
        THEN [collected |-> Append(acc, r), rret |-> NoRet]
        ELSE [collected |-> acc, rret |-> r]

OkDocument(ls) == [tag |-> "Ok", lines |-> ls]

ReadLine ==
    /\ rret = NoRet
    /\ lineno < Len(lines)
    /\ LET r == Collect(lines[lineno + 1], collected)
       IN  /\ collected' = r.collected
           /\ rret' = r.rret
    /\ lineno' = lineno + 1
    /\ UNCHANGED <<lines, input, index, state, offset, tokens, ret>>

ReaderDone ==
    /\ rret = NoRet
    /\ lineno = Len(lines)
    /\ rret' = OkDocument(collected)
    /\ UNCHANGED <<lines, lineno, collected, input, index, state, offset, tokens, ret>>

InitReader ==
    /\ lines \in Docs
    /\ lineno = 0
    /\ collected = <<>>
    /\ rret = NoRet
    /\ input = <<>>
    /\ index = 0
    /\ state = Start.state
    /\ offset = Start.offset
    /\ tokens = Start.tokens
    /\ ret = Start.ret

NextReader ==
    \/ ReadLine
    \/ ReaderDone

SpecReader == InitReader /\ [][NextReader]_vars

(***************************************************************************)
(* Vocabulary of the properties.                                           *)
(***************************************************************************)
Done == ret # NoRet
Succeeded == ret # NoRet /\ ret.tag = "Ok"
Failed == ret # NoRet /\ ret.tag = "Err"

NonZeroDigits == AsciiDigits \ {"0"}
CharsOf(s) == {s[i] : i \in 1..Len(s)}

(***************************************************************************)
(* C1: every non-empty line of ASCII decimal digits tokenizes to exactly   *)
(* one DecNumber whose text is the whole line.                             *)
(***************************************************************************)
AllDigits(s) == Len(s) > 0 /\ CharsOf(s) \subseteq AsciiDigits

\* C1 as stated: every non-empty all-digit line, also one that starts with
\* '0' ("0", "00", "012"), succeeds with the single token DecNumber(line).
C1_AllDigitLines ==
    (Done /\ AllDigits(input)) =>
        (ret.tag = "Ok" /\ ret.tokens = <<DecNumber(input)>>)

\* C1 amended: every non-empty all-digit line whose first character is not
\* '0' succeeds with the single token DecNumber(line); an all-digit line
\* that starts with '0' fails.
C1_DigitLinesNoLeadingZero ==
    (Done /\ AllDigits(input)) =>
        IF input[1] # "0"
        THEN ret.tag = "Ok" /\ ret.tokens = <<DecNumber(input)>>
        ELSE ret.tag = "Err"

C1_Witness ==
    /\ Done
    /\ AllDigits(input)
    /\ Len(input) >= 3
    /\ input[1] # "0"
    /\ "0" \in CharsOf(input)
    /\ ret.tokens = <<DecNumber(input)>>

(***************************************************************************)
(* C2: a line of digits and '_' that starts with a digit 1-9 succeeds,     *)
(* with the single token DecNumber(line), exactly when every '_' stands    *)
(* between two digits; a doubled or a trailing '_' fails the line.         *)
(***************************************************************************)
DecWithSeparators(s) ==
    /\ Len(s) > 0
    /\ s[1] \in NonZeroDigits
    /\ CharsOf(s) \subseteq (AsciiDigits \cup {"_"})

BetweenDigits(s) ==
    \A i \in 1..Len(s) :
        s[i] = "_" =>
            /\ i > 1
            /\ i < Len(s)
            /\ s[i - 1] \in AsciiDigits
            /\ s[i + 1] \in AsciiDigits

C2_UnderscoreBetweenDigits ==
    (Done /\ DecWithSeparators(input)) =>
        IF BetweenDigits(input)
        THEN ret.tag = "Ok" /\ ret.tokens = <<DecNumber(input)>>
        ELSE ret.tag = "Err"

C2_Witness ==
    /\ Done
    /\ DecWithSeparators(input)
    /\ BetweenDigits(input)
    /\ Cardinality({i \in 1..Len(input) : input[i] = "_"}) = 2
    /\ ret.tokens = <<DecNumber(input)>>

(***************************************************************************)
(* C3: a line of radix-prefixed literals ("0x"/"0X" + hex digits,          *)
(* "0o"/"0O" + octal digits, "0b"/"0B" + binary digits) joined by '+'      *)
(* with at most one space on each side of the '+' tokenizes, in order, to  *)
(* one Hex/Oct/BinNumber per literal with its lexeme verbatim, one         *)
(* Operator(Plus) per '+' and one Whitespaces(" ") per space.              *)
(***************************************************************************)
HexDigits == AsciiDigits \cup {"a", "b", "c", "d", "e", "f", "A", "B", "C", "D", "E", "F"}
OctDigits == {"0", "1", "2", "3", "4", "5", "6", "7"}
BinDigits == {"0", "1"}

\* the number kind a literal lexeme has by the grammar, "" when it is none
LiteralKind(l) ==
    IF Len(l) < 3 \/ l[1] # "0" THEN ""
    ELSE LET digits == {l[i] : i \in 3..Len(l)}
         IN  CASE l[2] \in {"x", "X"} /\ digits \subseteq HexDigits -> "HexNumber"
               [] l[2] \in {"o", "O"} /\ digits \subseteq OctDigits -> "OctNumber"
               [] l[2] \in {"b", "B"} /\ digits \subseteq BinDigits -> "BinNumber"
               [] OTHER -> ""

\* the pieces of a line between its '+' characters
RECURSIVE SplitPlus(_)
SplitPlus(s) ==
    LET plus == {i \in 1..Len(s) : s[i] = "+"}
    IN  IF plus = {} THEN <<s>>
        ELSE LET i == CHOOSE j \in plus : \A k \in plus : j <= k
             IN  <<SubSeq(s, 1, i - 1)>> \o SplitPlus(SubSeq(s, i + 1, Len(s)))

\* piece k of n: an optional space after the previous '+', the literal, an
\* optional space before the next '+'
PieceLead(p, k) == k > 1 /\ Len(p) > 0 /\ p[1] = " "
PieceTrail(p, k, n) == k < n /\ Len(p) > 1 /\ p[Len(p)] = " "
PieceCore(p, k, n) ==
    SubSeq(p, IF PieceLead(p, k) THEN 2 ELSE 1,
              IF PieceTrail(p, k, n) THEN Len(p) - 1 ELSE Len(p))

IsRadixSum(s) ==
    LET ps == SplitPlus(s)
    IN  \A k \in 1..Len(ps) : LiteralKind(PieceCore(ps[k], k, Len(ps))) # ""

RECURSIVE SumTokens(_, _)
SumTokens(ps, k) ==
    IF k > Len(ps) THEN <<>>
    ELSE LET p == ps[k]
             core == PieceCore(p, k, Len(ps))
         IN  (IF k > 1 THEN <<[kind |-> "Operator", op |-> "Plus"]>> ELSE <<>>)
             \o (IF PieceLead(p, k) THEN <<[kind |-> "Whitespaces", text |-> <<" ">>]>> ELSE <<>>)
             \o <<[kind |-> LiteralKind(core), text |-> core]>>
             \o (IF PieceTrail(p, k, Len(ps))
                 THEN <<[kind |-> "Whitespaces", text |-> <<" ">>]>> ELSE <<>>)
             \o SumTokens(ps, k + 1)

C3_RadixSums ==
    (Done /\ IsRadixSum(input)) =>
        (ret.tag = "Ok" /\ ret.tokens = SumTokens(SplitPlus(input), 1))

C3_Witness ==
    /\ Done
    /\ IsRadixSum(input)
    /\ Len(SplitPlus(input)) = 2
    /\ ret.tag = "Ok"
    /\ Len(ret.tokens) = 5
    /\ ret.tokens[1].kind = "OctNumber"
    /\ ret.tokens[5] = BinNumber(<<"0", "B", "1">>)

(***************************************************************************)
(* C4: for every identifier run R (a starting-class character followed by  *)
(* continuing-class characters, also one that begins with b, f, r or u in  *)
(* either case) the line R tokenizes to [Identifier(R)] and the line R ':' *)
(* to [Identifier(R), Operator(Colon)].                                    *)
(***************************************************************************)
IsIdentifierRun(s) ==
    /\ Len(s) > 0
    /\ s[1] \in Letters
    /\ \A i \in 2..Len(s) : s[i] \in (Letters \cup AsciiDigits \cup {"_"})

Front(s) == SubSeq(s, 1, Len(s) - 1)

C4_IdentifierRuns ==
    Done =>
        /\ IsIdentifierRun(input) =>
               (ret.tag = "Ok" /\ ret.tokens = <<Identifier(input)>>)
        /\ (Len(input) > 1 /\ input[Len(input)] = ":" /\ IsIdentifierRun(Front(input))) =>
               (ret.tag = "Ok" /\ ret.tokens = <<Identifier(Front(input)), Operator("Colon")>>)

(***************************************************************************)
(* C5: once '#' has started a Comment at position i, every later character *)
(* is consumed with the state, the tokens and the result untouched, and    *)
(* the end of the line appends the one token Comment(line[i..]) as the     *)
(* last token of a successful result; a line whose first non-space         *)
(* character is '#' yields exactly that one token.                         *)
(***************************************************************************)
LeadingSpaces(s) ==
    IF \A i \in 1..Len(s) : s[i] = " " THEN Len(s)
    ELSE (CHOOSE i \in 1..Len(s) : s[i] # " " /\ \A j \in 1..(i - 1) : s[j] = " ") - 1

StartsWithHash(s) == LeadingSpaces(s) < Len(s) /\ s[LeadingSpaces(s) + 1] = "#"

C5_InComment ==
    (state.tag = "Comment" /\ ret = NoRet) =>
        IF index < Len(input)
        THEN /\ state' = state
             /\ tokens' = tokens
             /\ offset' = offset
             /\ ret' = NoRet
             /\ index' = index + 1
        ELSE ret' = OkLine(offset,
                           Append(tokens, Comment(Slice(input, state.starts_at, Len(input)))))

C5_HashLine ==
    (Done /\ StartsWithHash(input)) =>
        ret = OkLine(LeadingSpaces(input),
                     <<Comment(Slice(input, LeadingSpaces(input), Len(input)))>>)

C5_CommentAbsorbing == [][C5_InComment]_vars /\ []C5_HashLine

C5_Witness ==
    /\ Succeeded
    /\ state.tag = "Comment"
    /\ state.starts_at > 0
    /\ Len(input) >= state.starts_at + 2
    /\ {"'", "-", "#"} \cap {input[i] : i \in (state.starts_at + 2)..Len(input)} # {}
    /\ ret.tokens[Len(ret.tokens)] = Comment(Slice(input, state.starts_at, Len(input)))

(***************************************************************************)
(* C6: round trip.  For every line on which from_str succeeds, `offset`    *)
(* spaces followed by the lexemes of the tokens in order (Colon as ":",    *)
(* Plus as "+") is the line itself, trailing spaces included.              *)
(***************************************************************************)
Lexeme(tok) ==
    IF tok.kind = "Operator"
    THEN (IF tok.op = "Colon" THEN <<":">> ELSE <<"+">>)
    ELSE tok.text

RECURSIVE Lexemes(_)
Lexemes(toks) ==
    IF toks = <<>> THEN <<>> ELSE Lexeme(Head(toks)) \o Lexemes(Tail(toks))

Spaces(n) == [i \in 1..n |-> " "]

Rebuilt(r) == Spaces(r.offset) \o Lexemes(r.tokens)

\* C6 as stated: the round trip is exact on every successful line.
C6_RoundTrip == Succeeded => Rebuilt(ret) = input

\* C6 amended: the round trip is exact on every successful line whose scan
\* does not end in the Whitespaces state or, for a non-empty line, in the
\* Indent state; that is every successful line that does not end in a space
\* (the end of the line emits nothing for a pending run of spaces).
C6_RoundTripNoTrailingSpace ==
    Succeeded =>
        /\ (state.tag \notin {"Whitespaces", "Indent"} \/ input = <<>>) => Rebuilt(ret) = input
        /\ (input = <<>> \/ input[Len(input)] # " ") => Rebuilt(ret) = input

C6_Witness ==
    /\ Succeeded
    /\ ret.offset > 0
    /\ Len(ret.tokens) >= 3
    /\ \E i \in 1..Len(ret.tokens) : ret.tokens[i].kind = "Operator"
    /\ \E i \in 1..Len(ret.tokens) : ret.tokens[i].kind = "Whitespaces"
    /\ input[Len(input)] # " "
    /\ Rebuilt(ret) = input

(***************************************************************************)
(* C7: from_reader over the lines L1..Ln.  If every line tokenizes, the    *)
(* result holds exactly the n results from_str(L1), ..., from_str(Ln) in   *)
(* document order; otherwise the call fails with the error of the first    *)
(* failing line, produces no document and tokenizes no line after it.      *)
(***************************************************************************)
ReaderReturned == rret # NoRet
AllReadable == \A i \in 1..Len(lines) : lines[i].io = "Ok"
LineResults == [i \in 1..Len(lines) |-> from_str(lines[i].line)]
FailingLines == {i \in 1..Len(lines) : LineResults[i].tag = "Err"}
FirstFailing == CHOOSE i \in FailingLines : \A j \in FailingLines : i <= j

C7_FromReader ==
    (ReaderReturned /\ AllReadable) =>
        IF FailingLines = {}
        THEN /\ rret = OkDocument(LineResults)
             /\ lineno = Len(lines)
        ELSE /\ rret = LineResults[FirstFailing]
             /\ lineno = FirstFailing
             /\ collected = SubSeq(LineResults, 1, FirstFailing - 1)

C7_Witness ==
    /\ ReaderReturned
    /\ AllReadable
    /\ Len(lines) = 3
    /\ FailingLines = {2, 3}
    /\ LineResults[2] # LineResults[3]
    /\ rret = LineResults[2]
    /\ lineno = 2
    /\ Len(collected) = 1

(***************************************************************************)
(* C8: a maximal run of k >= 1 spaces that follows a token and is followed *)
(* by a non-space character produces exactly one Whitespaces token, whose  *)
(* lexeme is the whole run; so a successful result never holds two         *)
(* adjacent Whitespaces tokens.                                            *)
(***************************************************************************)
\* the 0-based position in the line of the j-th token of a result
TokenStart(r, j) == r.offset + Len(Lexemes(SubSeq(r.tokens, 1, j - 1)))

C8_WhitespaceRuns ==
    Succeeded =>
        /\ \A j \in 1..(Len(ret.tokens) - 1) :
               ~(ret.tokens[j].kind = "Whitespaces" /\ ret.tokens[j + 1].kind = "Whitespaces")
        /\ \A j \in 1..(Len(ret.tokens) - 1) :
               ret.tokens[j].kind = "Whitespaces" =>
                   LET from == TokenStart(ret, j)
                       to == from + Len(ret.tokens[j].text)
                   IN  /\ from >= 1 => input[from] # " "
                       /\ to < Len(input) => input[to + 1] # " "

(***************************************************************************)
(* C9: a numeric literal of radix R in sub-state Normal that a non-digit   *)
(* ends in the middle of the line is emitted with the tag of R, the tag    *)
(* the end of the line gives it; a decimal literal followed by a space or  *)
(* '+' is emitted as DecNumber.                                            *)
(***************************************************************************)
NumberKind(t) ==
    CASE t = "Dec" -> "DecNumber" [] t = "Hex" -> "HexNumber"
      [] t = "Oct" -> "OctNumber" [] t = "Bin" -> "BinNumber"

C9_EndedMidLine ==
    (/\ state.tag = "Number"
     /\ state.ns = "Normal"
     /\ ret = NoRet
     /\ index < Len(input)
     /\ ret' = NoRet
     /\ Len(tokens') > Len(tokens)) =>
        tokens'[Len(tokens) + 1] =
            [kind |-> NumberKind(state.t), text |-> Slice(input, state.starts_at, index)]

C9_RadixTagMidLine == [][C9_EndedMidLine]_vars

(***************************************************************************)
(* C10: the separator rule is the same for all four radixes: in a Number   *)
(* state of radix Hex, Oct or Bin with sub-state Normal a '_' moves to     *)
(* sub-state Underscore without ending the literal (checked where a digit  *)
(* follows the radix marker), so that "0x10_00"                            *)
(* yields the one token HexNumber("0x10_00") while "0x10__00" and "0x10_"  *)
(* fail.                                                                   *)
(***************************************************************************)
C10_UnderscoreStep ==
    (/\ state.tag = "Number"
     /\ state.t \in {"Hex", "Oct", "Bin"}
     /\ state.ns = "Normal"
     /\ ret = NoRet
     /\ index >= state.starts_at + 3
     /\ index < Len(input)
     /\ input[index + 1] = "_") =>
        /\ state' = StNumber(state.t, "Underscore", state.starts_at)
        /\ tokens' = tokens
        /\ ret' = NoRet

\* "0x" and then hex digits and '_', a digit first
HexWithSeparators(s) ==
    /\ Len(s) >= 3
    /\ s[1] = "0"
    /\ s[2] \in {"x", "X"}
    /\ s[3] \in HexDigits
    /\ \A i \in 3..Len(s) : s[i] \in (HexDigits \cup {"_"})

C10_HexLines ==
    (Done /\ HexWithSeparators(input)) =>
        IF BetweenDigits(input)
        THEN ret.tag = "Ok" /\ ret.tokens = <<HexNumber(input)>>
        ELSE ret.tag = "Err"

C10_UniformSeparatorRule == [][C10_UnderscoreStep]_vars /\ []C10_HexLines

(***************************************************************************)
(* C11: a string-prefix letter followed by a character that is neither a   *)
(* compatible second prefix letter nor a quote is the start of a plain     *)
(* identifier, and that character is handled by the Identifier rule; so    *)
(* every Identifier token of a successful result is one starting-class     *)
(* character followed only by continuing-class characters.                 *)
(***************************************************************************)
\* c is a prefix letter that may follow the prefix letter p: br, fr, rb, rf
SecondPrefixLetter(p, c) ==
    <<to_ascii_lowercase(p), to_ascii_lowercase(c)>> \in
        {<<"b", "r">>, <<"f", "r">>, <<"r", "b">>, <<"r", "f">>}

C11_AfterPrefixLetter ==
    (/\ state.tag = "StringPrefixSingle"
     /\ ret = NoRet
     /\ index < Len(input)
     /\ ~SecondPrefixLetter(input[index], input[index + 1])
     /\ input[index + 1] \notin {"'", "\""}) =>
        LET c == input[index + 1]
            identifier == [state |-> StIdentifier(index - 1), offset |-> offset,
                           tokens |-> tokens, ret |-> NoRet]
            after == ArmIdentifier(input, index, c, identifier)
        IN  /\ state' = after.state
            /\ tokens' = after.tokens
            /\ ret' = after.ret

C11_IdentifierLexemes ==
    Succeeded =>
        \A j \in 1..Len(ret.tokens) :
            ret.tokens[j].kind = "Identifier" => IsIdentifierRun(ret.tokens[j].text)

C11_PrefixLetterReinterpreted == [][C11_AfterPrefixLetter]_vars /\ []C11_IdentifierLexemes

(***************************************************************************)
(* C12: in every state that ends its construct by dispatching (Indent,     *)
(* Whitespaces, Identifier, Number in sub-state Normal, Empty) a ':' or    *)
(* '+' is accepted and, in that one step, appends the token of the         *)
(* construct it ended, if any, and then exactly one Operator(Colon) or     *)
(* Operator(Plus), leaving the machine in the Empty state.                 *)
(***************************************************************************)
DispatchingState(s) ==
    \/ s.tag \in {"Indent", "Whitespaces", "Identifier", "Empty"}
    \/ (s.tag = "Number" /\ s.ns = "Normal")

OperatorOf(c) == IF c = ":" THEN "Colon" ELSE "Plus"

\* the kinds of token the construct pending in state s can be emitted as
PendingKinds(s) ==
    CASE s.tag = "Whitespaces" -> {"Whitespaces"}
      [] s.tag = "Identifier" -> {"Identifier"}
      [] s.tag = "Number" -> {"DecNumber", "HexNumber", "OctNumber", "BinNumber"}
      [] OTHER -> {}

C12_OperatorStep ==
    (/\ DispatchingState(state)
     /\ ret = NoRet
     /\ index < Len(input)
     /\ input[index + 1] \in {":", "+"}) =>
        LET op == [kind |-> "Operator", op |-> OperatorOf(input[index + 1])]
            n == Len(tokens)
        IN  /\ ret' = NoRet
            /\ state' = StEmpty
            /\ index' = index + 1
            /\ IF state.tag \in {"Indent", "Empty"}
               THEN tokens' = Append(tokens, op)
               ELSE /\ Len(tokens') = n + 2
                    /\ SubSeq(tokens', 1, n) = tokens
                    /\ tokens'[n + 1].kind \in PendingKinds(state)
                    /\ tokens'[n + 1].text = Slice(input, state.starts_at, index)
                    /\ tokens'[n + 2] = op

C12_OperatorDispatch == [][C12_OperatorStep]_vars

\* a '+' has just ended a hexadecimal literal and emitted its operator
C12_Witness ==
    /\ ret = NoRet
    /\ state = StEmpty
    /\ Len(tokens) = 2
    /\ tokens[1].kind = "HexNumber"
    /\ Len(tokens[1].text) >= 3
    /\ tokens[1].text[2] = "x"
    /\ tokens[2] = Operator("Plus")
    /\ index = offset + Len(tokens[1].text) + 1

(***************************************************************************)
(* C13: end-of-line resolution.  With every character consumed             *)
(* without error, from_str fails with InvalidTerminalState exactly when    *)
(* the final state is Zero, ZeroPadded, StringPrefixSingle,                *)
(* StringPrefixDouble, String or Number with sub-state Underscore; in      *)
(* Indent, Whitespaces and Empty it succeeds emitting nothing more; in     *)
(* Comment, Identifier and Number-Normal it succeeds emitting exactly one  *)
(* final token for the pending construct.                                  *)
(***************************************************************************)
IncompleteState(s) ==
    \/ s.tag \in {"Zero", "ZeroPadded", "StringPrefixSingle", "StringPrefixDouble", "String"}
    \/ (s.tag = "Number" /\ s.ns = "Underscore")

C13_EndStep ==
    (ret = NoRet /\ index = Len(input)) =>
        LET n == Len(tokens) IN
        CASE IncompleteState(state) -> ret' = InvalidTerminalState(state)
          [] state.tag \in {"Indent", "Whitespaces", "Empty"} ->
               ret' = OkLine(offset, tokens)
          [] OTHER ->
               /\ state.tag \in {"Comment", "Identifier", "Number"}
               /\ ret'.tag = "Ok"
               /\ ret'.offset = offset
               /\ Len(ret'.tokens) = n + 1
               /\ SubSeq(ret'.tokens, 1, n) = tokens
               /\ ret'.tokens[n + 1].text = Slice(input, state.starts_at, Len(input))
               /\ ret'.tokens[n + 1].kind =
                      (IF state.tag = "Number" THEN NumberKind(state.t) ELSE state.tag)

C13_EndOfLineResolution == [][C13_EndStep]_vars

\* a line that ended inside a string after a token had been emitted
C13_Witness ==
    /\ Failed
    /\ ret.kind = "InvalidTerminalState"
    /\ ret.state.tag = "String"
    /\ index = Len(input)
    /\ tokens # <<>>

(***************************************************************************)
(* C14: in state Zero (a lone '0' was dispatched as a token start) the     *)
(* next character decides: 'x'/'X', 'o'/'O', 'b'/'B' enter                 *)
(* Number(Hex/Oct/Bin, Normal) with the literal starting at the position   *)
(* of that '0'; a second '0' enters the zero-padded state; every other     *)
(* character fails the line with InvalidCharacter.                         *)
(***************************************************************************)
MarkerRadix(c) ==
    CASE c \in {"x", "X"} -> "Hex"
      [] c \in {"o", "O"} -> "Oct"
      [] c \in {"b", "B"} -> "Bin"
      [] OTHER -> ""

C14_ZeroStep ==
    (state.tag = "Zero" /\ ret = NoRet /\ index < Len(input)) =>
        LET c == input[index + 1]
            zero_at == index - 1
        IN  /\ input[zero_at + 1] = "0"
            /\ tokens' = tokens
            /\ offset' = offset
            /\ CASE MarkerRadix(c) # "" ->
                      /\ ret' = NoRet
                      /\ state' = [tag |-> "Number", t |-> MarkerRadix(c), ns |-> "Normal",
                                   starts_at |-> zero_at]
                 [] c = "0" ->
                      /\ ret' = NoRet
                      /\ state' = [tag |-> "ZeroPadded", starts_at |-> zero_at]
                 [] OTHER ->
                      ret' = [tag |-> "Err", kind |-> "InvalidCharacter", state |-> state, c |-> c]

C14_ZeroDisambiguation == [][C14_ZeroStep]_vars

\* an octal marker read after a '0' that is not the first character of the line
C14_Witness ==
    /\ ret = NoRet
    /\ state.tag = "Number"
    /\ state.t = "Oct"
    /\ state.starts_at > 0
    /\ index = state.starts_at + 2
    /\ input[index] \in {"o", "O"}

(***************************************************************************)
(* C15: unsupported constructs fail fast.  Every line on which the machine *)
(* enters the String, StringPrefixDouble or ZeroPadded state, and every    *)
(* line where a character outside the dispatch table ('-', a bare quote, a *)
(* leading '_') is dispatched as a token start, ends in an error and       *)
(* returns no successful result.                                           *)
(***************************************************************************)
UnsupportedState(s) == s.tag \in {"String", "StringPrefixDouble", "ZeroPadded"}

DispatchTable == {"#", " ", ":", "+"} \cup AsciiDigits \cup Letters

\* in state s the character c ends the pending construct and is dispatched
DispatchedFrom(s, c) ==
    CASE s.tag = "Indent" -> c # " "
      [] s.tag \in {"Whitespaces", "Empty"} -> TRUE
      [] s.tag = "Identifier" -> c \notin (Letters \cup AsciiDigits \cup {"_"})
      [] s.tag = "Number" /\ s.ns = "Normal" ->
           (CASE s.t = "Dec" -> c \notin (AsciiDigits \cup {"_"})
              [] s.t = "Hex" -> c \notin HexDigits
              [] s.t = "Oct" -> c \notin OctDigits
              [] s.t = "Bin" -> c \notin BinDigits)
      [] OTHER -> FALSE

C15_UnsupportedStep ==
    /\ (UnsupportedState(state) /\ ret = NoRet) => ret'.tag = "Err"
    /\ (/\ ret = NoRet
        /\ index < Len(input)
        /\ DispatchedFrom(state, input[index + 1])
        /\ input[index + 1] \notin DispatchTable) =>
           ret' = [tag |-> "Err", kind |-> "InvalidCharacter", state |-> state,
                   c |-> input[index + 1]]

C15_NoSuccess == (Done /\ UnsupportedState(state)) => ret.tag = "Err"

C15_UnsupportedFailFast == [][C15_UnsupportedStep]_vars /\ []C15_NoSuccess

\* a character read inside a string body
C15_Witness ==
    /\ Failed
    /\ ret.kind = "InvalidCharacter"
    /\ ret.state.tag = "String"
    /\ index = ret.state.starts_at + 3

(***************************************************************************)
(* C16: on success `offset` is the number of leading spaces of a line that *)
(* has a non-space character and 0 for an empty or all-space line; the     *)
(* leading spaces are never emitted (the first token is never              *)
(* Whitespaces); and `offset` is written at most once, on the transition   *)
(* that leaves the Indent state.                                           *)
(***************************************************************************)
Blank(s) == \A i \in 1..Len(s) : s[i] = " "

C16_OffsetValue ==
    Succeeded =>
        /\ ret.offset = (IF Blank(input) THEN 0 ELSE LeadingSpaces(input))
        /\ ret.tokens # <<>> => ret.tokens[1].kind # "Whitespaces"

\* the step that reads the first non-space character leaves Indent for the
\* state that character starts, or ends the scan when nothing starts with it
C16_OffsetWrite ==
    /\ offset' # offset =>
           (state.tag = "Indent" /\ (state'.tag # "Indent" \/ ret'.tag = "Err"))
    /\ state.tag # "Indent" => state'.tag # "Indent"

C16_IndentOffset == []C16_OffsetValue /\ [][C16_OffsetWrite]_vars

\* an indented line with a run of spaces after its first token
C16_Witness ==
    /\ Succeeded
    /\ ret.offset >= 1
    /\ Len(ret.tokens) >= 3
    /\ ret.tokens[2].kind = "Whitespaces"
    /\ ret.offset = LeadingSpaces(input)

(***************************************************************************)
(* C17: characters are examined strictly left to right, one transition     *)
(* each; scanning stops at the first character with no transition from the *)
(* current state, the line failing with InvalidCharacter carrying that     *)
(* character and the state held immediately before it; no later character  *)
(* is examined and no result is returned.  InvalidTerminalState is         *)
(* produced only after every character has been consumed.                  *)
(***************************************************************************)
C17_ScanStep ==
    /\ (ret = NoRet /\ index < Len(input)) =>
           /\ index' = index + 1
           /\ input' = input
           /\ \/ ret' = NoRet
              \/ ret' = [tag |-> "Err", kind |-> "InvalidCharacter", state |-> state,
                         c |-> input[index + 1]]
    /\ (ret = NoRet /\ index = Len(input)) =>
           /\ index' = index
           /\ ret' # NoRet
           /\ ret'.tag = "Err" => ret'.kind = "InvalidTerminalState"
    /\ ret # NoRet => UNCHANGED vars

C17_Stopped ==
    Failed =>
        /\ ret.kind = "InvalidCharacter" => (index >= 1 /\ ret.c = input[index])
        /\ ret.kind = "InvalidTerminalState" => index = Len(input)

C17_StopAtFirstError == [][C17_ScanStep]_vars /\ []C17_Stopped

\* an identifier ended by a character nothing starts with, characters left unread
C17_Witness ==
    /\ Failed
    /\ ret.kind = "InvalidCharacter"
    /\ ret.state.tag = "Identifier"
    /\ index < Len(input)

(***************************************************************************)
(* C18: scan invariant.  After each consumed character, while no error has *)
(* occurred, the lexemes of the tokens emitted so far (operators read as   *)
(* ':' and '+') concatenate to the slice of the line from `offset` up to   *)
(* the start of the pending construct, or up to the next unread position   *)
(* when the state is Empty or Indent; so the emitted lexemes are           *)
(* non-empty, contiguous, non-overlapping and in left-to-right order.      *)
(***************************************************************************)
\* where the construct pending in state s began, the next unread position
\* being i: Zero and StringPrefixSingle hold one character, StringPrefixDouble two
PendingStart(s, i) ==
    CASE s.tag \in {"Identifier", "Comment", "ZeroPadded", "String", "Whitespaces", "Number"} ->
           s.starts_at
      [] s.tag \in {"Zero", "StringPrefixSingle"} -> i - 1
      [] s.tag = "StringPrefixDouble" -> i - 2
      [] OTHER -> i

NonEmptyLexemes(toks) == \A j \in 1..Len(toks) : Lexeme(toks[j]) # <<>>

\* C18 as stated, the Indent state included.
C18_EmittedCoverLine ==
    ret = NoRet =>
        /\ Lexemes(tokens) = Slice(input, offset, PendingStart(state, index))
        /\ NonEmptyLexemes(tokens)

\* C18 amended: as stated for every state but Indent; in the Indent state
\* nothing has been emitted and `offset` is still 0, whatever number of
\* leading spaces has been read.
C18_EmittedCoverLineAfterIndent ==
    ret = NoRet =>
        IF state.tag = "Indent"
        THEN tokens = <<>> /\ offset = 0
        ELSE /\ Lexemes(tokens) = Slice(input, offset, PendingStart(state, index))
             /\ NonEmptyLexemes(tokens)

\* an identifier pending after two emitted tokens on an indented line
C18_Witness ==
    /\ ret = NoRet
    /\ state.tag = "Identifier"
    /\ offset >= 1
    /\ Len(tokens) >= 2
    /\ state.starts_at = offset + Len(Lexemes(tokens))
    /\ index > state.starts_at

(***************************************************************************)
(* C19: every HexNumber, OctNumber or BinNumber token of a successful      *)
(* result has at least one digit of its radix after the two-character      *)
(* radix marker; a bare marker such as "0x", "0b" or "0o" (at the end of   *)
(* the line or before a space or '+') is never emitted as a number token.  *)
(* Stated of the tokens that begin with a radix marker.                    *)
(***************************************************************************)
BeginsWithMarker(l) ==
    /\ Len(l) >= 2
    /\ l[1] = "0"
    /\ l[2] \in {"x", "X", "o", "O", "b", "B"}

C19_RadixLiteralHasDigit ==
    Succeeded =>
        \A j \in 1..Len(ret.tokens) :
            (/\ ret.tokens[j].kind \in {"HexNumber", "OctNumber", "BinNumber"}
             /\ BeginsWithMarker(ret.tokens[j].text)) =>
                /\ Len(ret.tokens[j].text) >= 3
                /\ LiteralKind(ret.tokens[j].text) = ret.tokens[j].kind

(***************************************************************************)
(* C20: index safety.  In every reachable state the start position carried *)
(* by the state (Identifier, Comment, ZeroPadded, String, Whitespaces,     *)
(* Number) is at least `offset` and strictly less than the index of the    *)
(* character being read, and the states Zero and StringPrefixSingle are    *)
(* current only when that index is at least 1; so every slice              *)
(* line[start..index] and every `index - 1` is in range.                   *)
(***************************************************************************)
CarriesStart(s) ==
    s.tag \in {"Identifier", "Comment", "ZeroPadded", "String", "Whitespaces", "Number"}

C20_IndexSafety ==
    /\ index >= 0
    /\ index <= Len(input)
    /\ CarriesStart(state) =>
           /\ state.starts_at >= offset
           /\ state.starts_at >= 0
           /\ state.starts_at < index
    /\ state.tag \in {"Zero", "StringPrefixSingle"} => index >= 1

\* a prefix letter at the very start of the line reinterpreted as an identifier
C20_Witness ==
    /\ ret = NoRet
    /\ state = StIdentifier(0)
    /\ index = 2
    /\ to_ascii_lowercase(input[1]) \in {"b", "f", "r", "u"}

====
